---- MODULE Spec2Model ----
(***************************************************************************)
(* The chat service of langgraph-chatbot: the HTTP handlers of             *)
(* src/api/main.py, the ChatAgent workflow of src/agents/chat_agent.py,    *)
(* the two retrieval adapters and the conversation memory of               *)
(* src/utils/memory_manager.py.                                            *)
(*                                                                         *)
(* External collaborators are nondeterministic inputs of the actions: the  *)
(* language model (fails, or returns a text that may be empty), the search *)
(* provider (fails, or returns a list of results), the vector index        *)
(* (fails, or returns scored matches), the graph engine (graph.invoke      *)
(* raises, or runs the nodes) and the chat-message store behind            *)
(* add_user_message / add_ai_message (raises, or appends).                 *)
(*                                                                         *)
(* Scores are kept in tenths (0.8 is 8), texts are named strings, and a    *)
(* model reply that the router parses is a tuple of characters.            *)
(*                                                                         *)
(* chat_endpoint is declared async and awaits nothing, so the event loop   *)
(* runs one request to completion before the next.  The model lets the     *)
(* steps of different requests interleave freely, as for threaded callers  *)
(* of ChatAgent.chat; every schedule of the event loop is one of them.     *)
(***************************************************************************)
EXTENDS Integers, Sequences, FiniteSets, TLC

\* ------------------------------------------------------------------ bounds

\* chat calls started over a run
MaxCalls == 2

\* chat calls made on one held ChatAgent
MaxAgentCalls == 12

SessionIds == {"s1", "s2"}
Requests == {"r1", "r2"}

\* The query text of the n-th chat call: every call brings a text of its own,
\* and the second call brings the empty text.
QueryTexts == <<"q1", "", "q3", "q4">>

\* ------------------------------------------------------- fixed texts

\* search_agent.py:40
SearchNotFoundText == "I couldn't find relevant information for your query. Please try rephrasing your question."
\* search_agent.py:71
SearchErrorText == "I encountered an error while searching: <e>"
\* document_agent.py:40
NoDocumentsText == "I don't have any relevant documents to answer your question. Please upload some documents first."
\* document_agent.py:53
NotRelevantText == "I couldn't find sufficiently relevant information in the uploaded documents to answer your question."
\* document_agent.py:80
DocumentErrorText == "Error accessing documents: <e>"
\* chat_agent.py:135
ApologyText == "I apologize, but I encountered an error processing your request."
\* chat_agent.py:240
ChatErrorText == "I encountered an error: <e>"

\* document_agent.py:47, the relevance cut-off 0.8 in tenths
RelevanceThreshold == 8

\* settings.py:25, the k of ConversationBufferWindowMemory: the exchanges
\* (one user turn and one assistant turn each) its buffer returns
memory_window == 10

\* ------------------------------------------------------- external inputs

\* What one language-model call can do: raise, or return a content that is
\* already stripped; the content names the prompt it answers, or is empty.
LLMOutcomes(kind) ==
    { [ok |-> FALSE, content |-> ""],
      [ok |-> TRUE, content |-> ""],
      [ok |-> TRUE, content |-> kind] }

\* What the search provider can do: raise, or return ranked results.
ProviderOutcomes ==
    { [ok |-> FALSE, results |-> <<>>],
      [ok |-> TRUE, results |-> <<>>],
      [ok |-> TRUE, results |-> <<"w1">>],
      [ok |-> TRUE, results |-> <<"w2", "w1">>] }

\* What the vector index can do: raise, or return matches with their scores.
IndexMatchLists ==
    { <<>>,
      << [doc |-> "d1", score |-> 3] >>,
      << [doc |-> "d1", score |-> 8] >>,
      << [doc |-> "d2", score |-> 9], [doc |-> "d1", score |-> 3] >>,
      << [doc |-> "d2", score |-> 7], [doc |-> "d1", score |-> 3] >> }

IndexOutcomes ==
    { [ok |-> FALSE, matches |-> <<>>] } \cup
    { [ok |-> TRUE, matches |-> m] : m \in IndexMatchLists }

\* Replies of the routing model call, before strip() and upper().
Replies ==
    << <<"I", " ", "r", "e", "c", "o", "m", "m", "e", "n", "d", " ", "S", "E", "A", "R", "C", "H">>,
       <<"U", "s", "e", " ", "D", "O", "C", "U", "M", "E", "N", "T", "S", " ", "p", "l", "e", "a", "s", "e">>,
       <<"B", "O", "T", "H", " ", "s", "o", "u", "r", "c", "e", "s", " ", "n", "e", "e", "d", "e", "d">>,
       <<"j", "u", "s", "t", " ", "s", "a", "y", " ", "h", "i">>,
       <<" ", "s", "e", "a", "r", "c", "h", " ">>,
       <<"B", "o", "t", "h">>,
       <<"D", "I", "R", "E", "C", "T">>,
       <<"d", "o", "c", "u", "m", "e", "n", "t", "s", " ", "o", "r", " ", "B", "O", "T", "H">>,
       <<"S", "E", "A", "R", "C", "H", " ", "B", "O", "T", "H">>,
       <<>> >>

ReplyIds == 1 .. Len(Replies)

\* ------------------------------------------------------- text helpers

Range(f) == { f[i] : i \in DOMAIN f }

UpperOf ==
    ("a" :> "A") @@ ("b" :> "B") @@ ("c" :> "C") @@ ("d" :> "D") @@ ("e" :> "E") @@
    ("f" :> "F") @@ ("g" :> "G") @@ ("h" :> "H") @@ ("i" :> "I") @@ ("j" :> "J") @@
    ("k" :> "K") @@ ("l" :> "L") @@ ("m" :> "M") @@ ("n" :> "N") @@ ("o" :> "O") @@
    ("p" :> "P") @@ ("q" :> "Q") @@ ("r" :> "R") @@ ("s" :> "S") @@ ("t" :> "T") @@
    ("u" :> "U") @@ ("v" :> "V") @@ ("w" :> "W") @@ ("x" :> "X") @@ ("y" :> "Y") @@
    ("z" :> "Z")

\* str.upper()
Upper(s) ==
    [i \in 1 .. Len(s) |-> IF s[i] \in DOMAIN UpperOf THEN UpperOf[s[i]] ELSE s[i]]

\* str.strip()
RECURSIVE Strip(_)
Strip(s) ==
    IF s = <<>> THEN s
    ELSE IF Head(s) = " " THEN Strip(Tail(s))
    ELSE IF s[Len(s)] = " " THEN Strip(SubSeq(s, 1, Len(s) - 1))
    ELSE s

\* sub in s
Contains(s, sub) ==
    \E i \in 1 .. (Len(s) - Len(sub) + 1) : SubSeq(s, i, i + Len(sub) - 1) = sub

SEARCH == <<"S", "E", "A", "R", "C", "H">>
DOCUMENTS == <<"D", "O", "C", "U", "M", "E", "N", "T", "S">>
BOTH == <<"B", "O", "T", "H">>

\* ------------------------------------------------------- router

\* DocumentAgent.has_documents over VectorStoreManager.get_collection_info:
\* a failing index is answered with {} and so with "no documents".
has_documents(infoOk, count) ==
    IF infoOk THEN count > 0 ELSE FALSE

\* The decision route_query takes from the reply of the model.
RouteDecisionSwapped(reply) ==
    LET decision == Upper(Strip(reply))
    IN IF Contains(decision, BOTH) THEN "both"
       ELSE IF Contains(decision, SEARCH) THEN "search"
       ELSE IF Contains(decision, DOCUMENTS) THEN "documents"
       ELSE "direct"

RouteDecision(reply) ==
    LET decision == Upper(Strip(reply))
    IN IF Contains(decision, SEARCH) THEN "search"
       ELSE IF Contains(decision, DOCUMENTS) THEN "documents"
       ELSE IF Contains(decision, BOTH) THEN "both"
       ELSE "direct"

\* route_query: the except branch answers "direct".
RouteQueryRaising(llmOk, reply) ==
    IF llmOk THEN RouteDecision(reply) ELSE "raise"

route_query(llmOk, reply) ==
    IF llmOk THEN RouteDecision(reply) ELSE "direct"

\* ------------------------------------------------------- adapters

\* An adapter result as the workflow reads it: present is FALSE for the {}
\* that ChatAgent.chat puts in the initial state.
NoResults ==
    [present |-> FALSE, success |-> FALSE, response |-> "", sources |-> <<>>]

AdapterResult(ok, text, srcs) ==
    [present |-> TRUE, success |-> ok, response |-> text, sources |-> srcs]

\* One entry of "sources": a web entry stands for title, url and snippet of
\* one provider result; its score 0 stands for "no score".
WebSource(w) == [origin |-> "web", ref |-> w, score |-> 0]

DocSource(m) == [origin |-> "doc", ref |-> m.doc, score |-> m.score]

\* SearchAgent._perform_search: a provider error is answered with [].
PerformSearchTopOnly(provider) ==
    IF provider.ok /\ provider.results # <<>>
    THEN << Head(provider.results) >>
    ELSE <<>>

perform_search(provider) ==
    IF provider.ok THEN provider.results ELSE <<>>

SearchAndRespondKeepingSources(provider, llm) ==
    IF perform_search(provider) = <<>>
    THEN AdapterResult(FALSE, SearchNotFoundText, <<>>)
    ELSE AdapterResult(llm.ok, IF llm.ok THEN llm.content ELSE SearchErrorText,
             [i \in 1 .. Len(perform_search(provider)) |->
                 WebSource(perform_search(provider)[i])])

\* SearchAgent.search_and_respond
search_and_respond(provider, llm) ==
    LET search_results == perform_search(provider)
    IN IF search_results = <<>>
       THEN AdapterResult(FALSE, SearchNotFoundText, <<>>)
       ELSE IF ~llm.ok
       THEN AdapterResult(FALSE, SearchErrorText, <<>>)
       ELSE AdapterResult(TRUE, llm.content,
                [i \in 1 .. Len(search_results) |-> WebSource(search_results[i])])

\* VectorStoreManager.similarity_search_with_score: an index error is
\* answered with [].
similarity_search_with_score(index) ==
    IF index.ok THEN index.matches ELSE <<>>

\* The relevance filter of query_documents: score < 0.8.
IsRelevantInclusive(m) == m.score <= RelevanceThreshold

IsRelevant(m) == m.score < RelevanceThreshold

filtered_docs(relevant_docs) == SelectSeq(relevant_docs, IsRelevant)

\* DocumentAgent._prepare_sources
prepare_sources(docs_with_scores) ==
    [i \in 1 .. Len(docs_with_scores) |-> DocSource(docs_with_scores[i])]

QueryDocumentsModelFirst(index, llm) ==
    IF ~llm.ok
    THEN AdapterResult(FALSE, DocumentErrorText, <<>>)
    ELSE IF similarity_search_with_score(index) = <<>>
    THEN AdapterResult(TRUE, NoDocumentsText, <<>>)
    ELSE IF filtered_docs(similarity_search_with_score(index)) = <<>>
    THEN AdapterResult(TRUE, NotRelevantText, <<>>)
    ELSE AdapterResult(TRUE, llm.content,
             prepare_sources(filtered_docs(similarity_search_with_score(index))))

\* DocumentAgent.query_documents
query_documents(index, llm) ==
    LET relevant_docs == similarity_search_with_score(index)
    IN IF relevant_docs = <<>>
       THEN AdapterResult(TRUE, NoDocumentsText, <<>>)
       ELSE IF filtered_docs(relevant_docs) = <<>>
       THEN AdapterResult(TRUE, NotRelevantText, <<>>)
       ELSE IF ~llm.ok
       THEN AdapterResult(FALSE, DocumentErrorText, <<>>)
       ELSE AdapterResult(TRUE, llm.content,
                prepare_sources(filtered_docs(relevant_docs)))

\* ------------------------------------------------------- workflow nodes

\* The initial ChatState of ChatAgent.chat.
InitialState(query, chat_history) ==
    [query |-> query,
     chat_history |-> chat_history,
     needs_search |-> FALSE,
     needs_documents |-> FALSE,
     search_results |-> NoResults,
     document_results |-> NoResults,
     final_response |-> "",
     sources |-> <<>>]

search_node(state, provider, llm) ==
    [state EXCEPT !.search_results = search_and_respond(provider, llm),
                  !.needs_search = TRUE]

DocumentNodeAfterSearch(state, index, llm) ==
    IF state.search_results.present /\ state.search_results.success
    THEN [state EXCEPT !.document_results = AdapterResult(TRUE, NotRelevantText, <<>>),
                       !.needs_documents = TRUE]
    ELSE [state EXCEPT !.document_results = query_documents(index, llm),
                       !.needs_documents = TRUE]

document_node(state, index, llm) ==
    [state EXCEPT !.document_results = query_documents(index, llm),
                  !.needs_documents = TRUE]

BothNodeShortCircuit(state, provider, llmS, index, llmD) ==
    IF search_node(state, provider, llmS).search_results.success
    THEN document_node(search_node(state, provider, llmS), index, llmD)
    ELSE search_node(state, provider, llmS)

both_node(state, provider, llmS, index, llmD) ==
    document_node(search_node(state, provider, llmS), index, llmD)

\* direct_response_node: the except branch leaves "sources" as it is.
DirectNoApology(state, llm) ==
    IF llm.ok
    THEN [state EXCEPT !.final_response = llm.content, !.sources = <<>>]
    ELSE state

direct_response_node(state, llm) ==
    IF llm.ok
    THEN [state EXCEPT !.final_response = llm.content, !.sources = <<>>]
    ELSE [state EXCEPT !.final_response = ApologyText]

\* combine_results_node: llmFinal is the synthesis call, llmDirect the call
\* of the direct_response_node it falls back to.
CombineSurfacingFailure(state, llmFinal, llmDirect) ==
    LET useD == state.document_results.success
    IN IF state.search_results.present /\ ~state.search_results.success
       THEN [state EXCEPT !.final_response = state.search_results.response,
                          !.sources = IF useD THEN state.document_results.sources
                                      ELSE <<>>]
       ELSE IF ~llmFinal.ok
       THEN direct_response_node(state, llmDirect)
       ELSE [state EXCEPT !.final_response = llmFinal.content,
                          !.sources = state.search_results.sources
                                      \o state.document_results.sources]

CombineDocumentsFirst(state, llmFinal, llmDirect) ==
    LET useS == state.search_results.success
        useD == state.document_results.success
        search_info == IF useS THEN state.search_results.response ELSE ""
        document_info == IF useD THEN state.document_results.response ELSE ""
        sources == (IF useD THEN state.document_results.sources ELSE <<>>)
                   \o (IF useS THEN state.search_results.sources ELSE <<>>)
    IN IF search_info = "" /\ document_info = ""
       THEN direct_response_node(state, llmDirect)
       ELSE IF ~llmFinal.ok
       THEN direct_response_node(state, llmDirect)
       ELSE [state EXCEPT !.final_response = llmFinal.content,
                          !.sources = sources]

CombineSourcesFirst(state, llmFinal, llmDirect) ==
    LET useS == state.search_results.success
        useD == state.document_results.success
        search_info == IF useS THEN state.search_results.response ELSE ""
        document_info == IF useD THEN state.document_results.response ELSE ""
        gathered == [state EXCEPT !.sources =
                        (IF useS THEN state.search_results.sources ELSE <<>>)
                        \o (IF useD THEN state.document_results.sources ELSE <<>>)]
    IN IF search_info = "" /\ document_info = ""
       THEN direct_response_node(gathered, llmDirect)
       ELSE IF ~llmFinal.ok
       THEN direct_response_node(gathered, llmDirect)
       ELSE [gathered EXCEPT !.final_response = llmFinal.content]

combine_results_node(state, llmFinal, llmDirect) ==
    LET useS == state.search_results.success
        useD == state.document_results.success
        search_info == IF useS THEN state.search_results.response ELSE ""
        document_info == IF useD THEN state.document_results.response ELSE ""
        sources == (IF useS THEN state.search_results.sources ELSE <<>>)
                   \o (IF useD THEN state.document_results.sources ELSE <<>>)
    IN IF search_info = "" /\ document_info = ""
       THEN direct_response_node(state, llmDirect)
       ELSE IF ~llmFinal.ok
       THEN direct_response_node(state, llmDirect)
       ELSE [state EXCEPT !.final_response = llmFinal.content,
                          !.sources = sources]

\* ------------------------------------------------------- calls made

\* What a chat call logs: the nodes the graph runs ("search", "documents",
\* "both", "direct", "combine"), the adapter methods it invokes
\* ("search_and_respond", "query_documents") and the model calls it makes
\* ("llm:route", "llm:search", "llm:document", "llm:final", "llm:direct").

\* route_query: has_documents does not raise, so the model is always called.
route_calls == << "llm:route" >>

\* search_node: search_and_respond calls the model when there are results.
search_calls(provider) ==
    << "search_and_respond" >>
    \o (IF perform_search(provider) # <<>> THEN << "llm:search" >> ELSE <<>>)

\* document_node: query_documents calls the model when the filter leaves a
\* match.
document_calls(index) ==
    << "query_documents" >>
    \o (IF filtered_docs(similarity_search_with_score(index)) # <<>>
        THEN << "llm:document" >> ELSE <<>>)

\* both_node
both_calls(provider, index) == search_calls(provider) \o document_calls(index)

\* direct_response_node
direct_calls == << "llm:direct" >>

\* combine_results_node: the synthesis call is made when there is a text to
\* synthesize from, and direct_response_node is called when there is none or
\* when the synthesis call fails.
combine_calls(state, llmFinal) ==
    LET search_info == IF state.search_results.success
                       THEN state.search_results.response ELSE ""
        document_info == IF state.document_results.success
                         THEN state.document_results.response ELSE ""
    IN IF search_info = "" /\ document_info = "" THEN direct_calls
       ELSE IF ~llmFinal.ok THEN << "llm:final" >> \o direct_calls
       ELSE << "llm:final" >>

\* The edges of the graph; END is where graph.invoke returns and chat goes on
\* to its memory update.
END == "add_user"

GraphEdgeDirectToCombine(node) ==
    IF node \in {"search", "documents", "both", "direct"} THEN "combine" ELSE END

GraphEdgeCombineToDirect(node) ==
    IF node \in {"search", "documents", "both"} THEN "combine"
    ELSE IF node = "combine" THEN "direct" ELSE END

GraphEdge(node) ==
    IF node \in {"search", "documents", "both"} THEN "combine" ELSE END

\* ------------------------------------------------------- memory

\* A ConversationMemoryManager: chat_memory is memory.chat_memory.messages,
\* message_history is _message_history.
EmptyMemory == [chat_memory |-> <<>>, message_history |-> <<>>]

Turn(type, content) == [type |-> type, content |-> content]

\* _get_timestamp: the clock is read as the ordinal of the entry in its
\* conversation, so a later entry of a conversation carries a later stamp.
get_timestamp(memory) == Len(memory.message_history) + 1

\* One dict of _message_history.
HistoryEntry(type, content, timestamp) ==
    [type |-> type, content |-> content, timestamp |-> timestamp]

\* add_user_message / add_ai_message: when the chat-message store raises,
\* the except branch logs and nothing is appended.
AddMessageArchiveAlways(memory, type, message, storeOk) ==
    [chat_memory |-> IF storeOk
                     THEN Append(memory.chat_memory, Turn(type, message))
                     ELSE memory.chat_memory,
     message_history |-> Append(memory.message_history,
                            HistoryEntry(type, message, get_timestamp(memory)))]

add_message(memory, type, message, storeOk) ==
    IF storeOk
    THEN [chat_memory |-> Append(memory.chat_memory, Turn(type, message)),
          message_history |-> Append(memory.message_history,
                                 HistoryEntry(type, message, get_timestamp(memory)))]
    ELSE memory

\* get_formatted_history: one "Human: ..." or "Assistant: ..." line a turn.
get_formatted_history(memory) ==
    [i \in 1 .. Len(memory.chat_memory) |->
        << IF memory.chat_memory[i].type = "human" THEN "Human" ELSE "Assistant",
           memory.chat_memory[i].content >>]

\* clear_memory: memory.clear() and _message_history = []
ClearMemoryKeepingHistory(memory) ==
    [chat_memory |-> <<>>, message_history |-> memory.message_history]

clear_memory(memory) == EmptyMemory

\* "message_count" of get_session_summary
message_count(memory) == Len(memory.message_history)

\* "last_activity" of get_session_summary: the stamp of the last entry, or
\* None, written <<>>.
last_activity(memory) ==
    IF memory.message_history = <<>>
    THEN <<>>
    ELSE << memory.message_history[Len(memory.message_history)].timestamp >>

\* get_session_summary
get_session_summary(memory) ==
    [message_count |-> message_count(memory),
     last_activity |-> last_activity(memory)]

\* ------------------------------------------------------- chat results

NoResult ==
    [success |-> FALSE, response |-> "", sources |-> <<>>, session_id |-> ""]

\* The return of ChatAgent.chat after the graph ran.
chat_return(final_response, sources, session_id) ==
    [success |-> TRUE,
     response |-> final_response,
     sources |-> sources,
     session_id |-> session_id]

\* The except branch of ChatAgent.chat.
ChatExceptReraise(session_id) == [raised |-> TRUE]

chat_except(session_id) ==
    [success |-> FALSE,
     response |-> ChatErrorText,
     sources |-> <<>>,
     session_id |-> session_id]

\* ------------------------------------------------------- state

VARIABLES
    sessions,   \* memory_store._sessions: the session ids it holds
    mems,       \* the ConversationMemoryManager objects, by the id of their owner
    req,        \* the chat requests in flight, one per slot
    calls,      \* chat calls started
    completed,  \* per session: chat calls returned since its last clear
    expected    \* per session: the turns chat calls appended since its last clear

vars == <<sessions, mems, req, calls, completed, expected>>

MemIds == Requests \cup SessionIds

NodePcs == {"search", "documents", "both", "direct"}

NoRouting == [infoOk |-> TRUE, has_docs |-> FALSE, llmOk |-> TRUE, reply |-> 0]

IdleRequest ==
    [pc |-> "idle",
     session_id |-> "",
     query |-> "",
     mem |-> "",
     routing |-> NoRouting,
     decision |-> "",
     state |-> InitialState("", <<>>),
     final_response |-> "",
     sources |-> <<>>,
     added |-> <<>>,
     log |-> <<>>,
     result |-> NoResult]

Init ==
    /\ sessions = {}
    /\ mems = [m \in MemIds |-> EmptyMemory]
    /\ req = [r \in Requests |-> IdleRequest]
    /\ calls = 0
    /\ completed = [s \in SessionIds |-> 0]
    /\ expected = [s \in SessionIds |-> <<>>]

\* A new request takes the first free slot.
SlotOrder == <<"r1", "r2">>

\* No request is being handled.
AllIdle == \A r \in Requests : req[r].pc = "idle"

\* ------------------------------------------------------- chat

\* ChatAgent.__init__: the agent gets a ConversationMemoryManager of its own,
\* named here by the request that constructs it.
SharedMemoryManager(r, session_id) == session_id

NewMemoryManager(r, session_id) == r

\* chat_endpoint up to graph.invoke: a ChatAgent is constructed for the
\* request, chat reads the formatted history and builds the initial state.
StartChat(r, s, q) ==
    /\ req[r].pc = "idle"
    /\ \A i \in 1 .. Len(SlotOrder) :
          SlotOrder[i] = r => \A j \in 1 .. (i - 1) : req[SlotOrder[j]].pc # "idle"
    /\ calls < MaxCalls
    /\ calls < Len(QueryTexts)
    /\ q = QueryTexts[calls + 1]
    /\ LET m == NewMemoryManager(r, s)
           fresh == [mems EXCEPT ![r] = EmptyMemory]
       IN /\ mems' = fresh
          /\ req' = [req EXCEPT ![r] =
                 [IdleRequest EXCEPT
                    !.pc = "invoke",
                    !.session_id = s,
                    !.query = q,
                    !.mem = m,
                    !.state = InitialState(q, get_formatted_history(fresh[m]))]]
    /\ calls' = calls + 1
    /\ UNCHANGED <<sessions, completed, expected>>

\* graph.invoke raises: the except branch of chat returns the error result,
\* and memory is not touched.
GraphFails(r) ==
    /\ req[r].pc = "invoke"
    /\ req' = [req EXCEPT ![r].pc = "done",
                          ![r].result = chat_except(req[r].session_id)]
    /\ completed' = [completed EXCEPT ![req[r].session_id] = @ + 1]
    /\ UNCHANGED <<sessions, mems, calls, expected>>

\* The conditional entry point: route_query.  info is the answer of the
\* collection-info call behind has_documents, llmOk and reply the outcome of
\* the routing model call.
\* An exception that leaves route_query leaves graph.invoke too, and chat
\* returns from its except branch.
RouteQuery(r, info, llmOk, reply) ==
    /\ req[r].pc = "invoke"
    /\ LET decision == route_query(llmOk, Replies[reply])
           routing == [infoOk |-> info.ok,
                       has_docs |-> has_documents(info.ok, info.count),
                       llmOk |-> llmOk,
                       reply |-> IF llmOk THEN reply ELSE 0]
       IN IF decision \in NodePcs
          THEN /\ req' = [req EXCEPT
                      ![r].pc = decision,
                      ![r].decision = decision,
                      ![r].routing = routing,
                      ![r].log = route_calls]
               /\ UNCHANGED completed
          ELSE /\ req' = [req EXCEPT
                      ![r].pc = "done",
                      ![r].routing = routing,
                      ![r].result = chat_except(req[r].session_id)]
               /\ completed' = [completed EXCEPT ![req[r].session_id] = @ + 1]
    /\ UNCHANGED <<sessions, mems, calls, expected>>

SearchNode(r, provider, llm) ==
    /\ req[r].pc = "search"
    /\ req' = [req EXCEPT
          ![r].pc = GraphEdge("search"),
          ![r].routing = NoRouting,
          ![r].log = @ \o << "search" >> \o search_calls(provider),
          ![r].state = search_node(req[r].state, provider, llm)]
    /\ UNCHANGED <<sessions, mems, calls, completed, expected>>

DocumentNode(r, index, llm) ==
    /\ req[r].pc = "documents"
    /\ req' = [req EXCEPT
          ![r].pc = GraphEdge("documents"),
          ![r].routing = NoRouting,
          ![r].log = @ \o << "documents" >> \o document_calls(index),
          ![r].state = document_node(req[r].state, index, llm)]
    /\ UNCHANGED <<sessions, mems, calls, completed, expected>>

BothNode(r, provider, llmS, index, llmD) ==
    /\ req[r].pc = "both"
    /\ req' = [req EXCEPT
          ![r].pc = GraphEdge("both"),
          ![r].routing = NoRouting,
          ![r].log = @ \o << "both" >> \o both_calls(provider, index),
          ![r].state = both_node(req[r].state, provider, llmS, index, llmD)]
    /\ UNCHANGED <<sessions, mems, calls, completed, expected>>

DirectNode(r, llm) ==
    /\ req[r].pc = "direct"
    /\ req' = [req EXCEPT
          ![r].pc = GraphEdge("direct"),
          ![r].routing = NoRouting,
          ![r].log = @ \o << "direct" >> \o direct_calls,
          ![r].state = direct_response_node(req[r].state, llm)]
    /\ UNCHANGED <<sessions, mems, calls, completed, expected>>

CombineNode(r, llmFinal, llmDirect) ==
    /\ req[r].pc = "combine"
    /\ req' = [req EXCEPT
          ![r].pc = GraphEdge("combine"),
          ![r].log = @ \o << "combine" >> \o combine_calls(req[r].state, llmFinal),
          ![r].state = combine_results_node(req[r].state, llmFinal, llmDirect)]
    /\ UNCHANGED <<sessions, mems, calls, completed, expected>>

\* The expected conversation of a session after an append that took place.
Logged(log, type, message, storeOk) ==
    IF storeOk THEN Append(log, Turn(type, message)) ELSE log

\* chat after graph.invoke: final_response and sources are taken from the
\* result, and add_user_message(query) is called.
AddUserMessage(r, storeOk) ==
    /\ req[r].pc = "add_user"
    /\ mems' = [mems EXCEPT ![req[r].mem] =
           add_message(@, "human", req[r].query, storeOk)]
    /\ expected' = [expected EXCEPT ![req[r].session_id] =
           Logged(@, "human", req[r].query, storeOk)]
    /\ req' = [req EXCEPT
           ![r].pc = "add_ai",
           ![r].final_response = req[r].state.final_response,
           ![r].sources = req[r].state.sources,
           ![r].added = Logged(@, "human", req[r].query, storeOk)]
    /\ UNCHANGED <<sessions, calls, completed>>

\* self.memory_manager.add_ai_message(final_response), and the return.
AddAiMessage(r, storeOk) ==
    /\ req[r].pc = "add_ai"
    /\ mems' = [mems EXCEPT ![req[r].mem] =
           add_message(@, "ai", req[r].final_response, storeOk)]
    /\ expected' = [expected EXCEPT ![req[r].session_id] =
           Logged(@, "ai", req[r].final_response, storeOk)]
    /\ req' = [req EXCEPT
           ![r].pc = "done",
           ![r].added = Logged(@, "ai", req[r].final_response, storeOk),
           ![r].result = chat_return(req[r].final_response, req[r].sources,
                                     req[r].session_id)]
    /\ completed' = [completed EXCEPT ![req[r].session_id] = @ + 1]
    /\ UNCHANGED <<sessions, calls>>

\* chat_endpoint returns the ChatResponse; the agent and its memory manager
\* are dropped with the request.
Respond(r) ==
    /\ req[r].pc = "done"
    /\ req' = [req EXCEPT ![r] = IdleRequest]
    /\ mems' = [mems EXCEPT ![r] = EmptyMemory]
    /\ UNCHANGED <<sessions, calls, completed, expected>>

\* ------------------------------------------------------- other handlers

\* MemoryStore.clear_session: the memory of a session the store holds is
\* cleared and the session deleted; for any other id nothing is done.
\* raised tells whether the call ends in an exception.
ClearSessionUnguarded(store, memories, session_id) ==
    IF session_id \in store
    THEN [raised |-> FALSE,
          sessions |-> store \ {session_id},
          mems |-> [memories EXCEPT ![session_id] = clear_memory(@)]]
    ELSE [raised |-> TRUE, sessions |-> store, mems |-> memories]

ClearSessionAll(store, memories, session_id) ==
    IF session_id \in store
    THEN [raised |-> FALSE,
          sessions |-> {},
          mems |-> [m \in DOMAIN memories |->
                      IF m \in store THEN clear_memory(memories[m]) ELSE memories[m]]]
    ELSE [raised |-> FALSE, sessions |-> store, mems |-> memories]

clear_session(store, memories, session_id) ==
    IF session_id \in store
    THEN [raised |-> FALSE,
          sessions |-> store \ {session_id},
          mems |-> [memories EXCEPT ![session_id] = clear_memory(@)]]
    ELSE [raised |-> FALSE, sessions |-> store, mems |-> memories]

\* DELETE /sessions/{id}
ClearSession(s) ==
    /\ sessions' = clear_session(sessions, mems, s).sessions
    /\ mems' = clear_session(sessions, mems, s).mems
    /\ completed' = [completed EXCEPT ![s] = 0]
    /\ expected' = [expected EXCEPT ![s] = <<>>]
    /\ UNCHANGED <<req, calls>>

\* ------------------------------------------------------- a held ChatAgent

\* The positions of a ChatAgent between two calls of its methods.
RestPcs == {"done", "cleared", "cleared_again"}

\* The positions of a chat call that has not returned.
RunningPcs == {"invoke", "combine", "add_user", "add_ai"} \cup NodePcs

\* ChatAgent.chat called again on the agent of an earlier call: the agent
\* keeps its memory manager, and chat reads the history that one holds.
ChatAgain(r, q) ==
    /\ req[r].pc \in RestPcs
    /\ calls < MaxAgentCalls
    /\ q = QueryTexts[(calls % Len(QueryTexts)) + 1]
    /\ req' = [req EXCEPT ![r] =
           [IdleRequest EXCEPT
              !.pc = "invoke",
              !.session_id = req[r].session_id,
              !.query = q,
              !.mem = req[r].mem,
              !.state = InitialState(q, get_formatted_history(mems[req[r].mem]))]]
    /\ calls' = calls + 1
    /\ UNCHANGED <<sessions, mems, completed, expected>>

\* ChatAgent.clear_conversation
ClearConversation(r) ==
    /\ req[r].pc \in RestPcs \cup {"interrupted"}
    /\ mems' = [mems EXCEPT ![req[r].mem] = clear_memory(@)]
    /\ req' = [req EXCEPT ![r].pc =
           IF req[r].pc \in {"cleared", "cleared_again"} THEN "cleared_again"
           ELSE "cleared"]
    /\ completed' = [completed EXCEPT ![req[r].session_id] = 0]
    /\ expected' = [expected EXCEPT ![req[r].session_id] = <<>>]
    /\ UNCHANGED <<sessions, calls>>

\* A chat call is interrupted by an exception that "except Exception" does
\* not catch (KeyboardInterrupt, SystemExit, a cancellation): it leaves
\* chat where it is raised, and the memory stays as the call left it.
Interrupt(r) ==
    /\ req[r].pc \in RunningPcs
    /\ req' = [req EXCEPT ![r].pc = "interrupted"]
    /\ UNCHANGED <<sessions, mems, calls, completed, expected>>

\* ------------------------------------------------------- specifications

\* What the collection-info call can answer: raise, or a count of chunks.
InfoOutcomes ==
    { [ok |-> FALSE, count |-> 0], [ok |-> TRUE, count |-> 0], [ok |-> TRUE, count |-> 1] }

\* The service as uvicorn runs it: every handler is a coroutine that never
\* awaits, so a request is handled to its end before the next one starts.
Next ==
    \/ \E r \in Requests, s \in SessionIds, q \in Range(QueryTexts) :
          AllIdle /\ StartChat(r, s, q)
    \/ \E r \in Requests : GraphFails(r)
    \/ \E r \in Requests, info \in InfoOutcomes, llmOk \in BOOLEAN, reply \in ReplyIds :
          RouteQuery(r, info, llmOk, reply)
    \/ \E r \in Requests, provider \in ProviderOutcomes,
          llm \in LLMOutcomes("search answer") :
          SearchNode(r, provider, llm)
    \/ \E r \in Requests, index \in IndexOutcomes,
          llm \in LLMOutcomes("document answer") :
          DocumentNode(r, index, llm)
    \/ \E r \in Requests, provider \in ProviderOutcomes,
          llmS \in LLMOutcomes("search answer"),
          index \in IndexOutcomes, llmD \in LLMOutcomes("document answer") :
          BothNode(r, provider, llmS, index, llmD)
    \/ \E r \in Requests, llm \in LLMOutcomes("direct answer") : DirectNode(r, llm)
    \/ \E r \in Requests, llmFinal \in LLMOutcomes("final answer"),
          llmDirect \in LLMOutcomes("direct answer") :
          CombineNode(r, llmFinal, llmDirect)
    \/ \E r \in Requests, storeOk \in BOOLEAN : AddUserMessage(r, storeOk)
    \/ \E r \in Requests, storeOk \in BOOLEAN : AddAiMessage(r, storeOk)
    \/ \E r \in Requests : Respond(r)
    \/ \E s \in SessionIds : AllIdle /\ ClearSession(s)

Spec == Init /\ [][Next]_vars

\* The same handlers called from threads: steps of different requests and
\* clears interleave.  The inputs are few: the routing model call fails or
\* succeeds, the provider fails or returns one result, the index returns one
\* relevant match and the other model calls answer.
ThreadLLMOutcomes(kind) == { [ok |-> TRUE, content |-> kind] }

ThreadProviderOutcomes ==
    { [ok |-> FALSE, results |-> <<>>], [ok |-> TRUE, results |-> <<"w1">>] }

ThreadIndexOutcomes ==
    { [ok |-> TRUE, matches |-> << [doc |-> "d1", score |-> 3] >>] }

ThreadInfoOutcomes == { [ok |-> TRUE, count |-> 1] }

\* the replies "I recommend SEARCH", "Use DOCUMENTS please", "BOTH sources
\* needed" and "just say hi"
ThreadReplyIds == { i \in ReplyIds : i <= Cardinality(NodePcs) }

NextThreads ==
    \/ \E r \in Requests, s \in SessionIds, q \in Range(QueryTexts) : StartChat(r, s, q)
    \/ \E r \in Requests : GraphFails(r)
    \/ \E r \in Requests, info \in ThreadInfoOutcomes, llmOk \in BOOLEAN,
          reply \in ThreadReplyIds :
          RouteQuery(r, info, llmOk, reply)
    \/ \E r \in Requests, provider \in ThreadProviderOutcomes,
          llm \in ThreadLLMOutcomes("search answer") :
          SearchNode(r, provider, llm)
    \/ \E r \in Requests, index \in ThreadIndexOutcomes,
          llm \in ThreadLLMOutcomes("document answer") :
          DocumentNode(r, index, llm)
    \/ \E r \in Requests, provider \in ThreadProviderOutcomes,
          llmS \in ThreadLLMOutcomes("search answer"),
          index \in ThreadIndexOutcomes, llmD \in ThreadLLMOutcomes("document answer") :
          BothNode(r, provider, llmS, index, llmD)
    \/ \E r \in Requests, llm \in ThreadLLMOutcomes("direct answer") : DirectNode(r, llm)
    \/ \E r \in Requests, llmFinal \in ThreadLLMOutcomes("final answer"),
          llmDirect \in ThreadLLMOutcomes("direct answer") :
          CombineNode(r, llmFinal, llmDirect)
    \/ \E r \in Requests, storeOk \in BOOLEAN : AddUserMessage(r, storeOk)
    \/ \E r \in Requests, storeOk \in BOOLEAN : AddAiMessage(r, storeOk)
    \/ \E r \in Requests : Respond(r)
    \/ \E s \in SessionIds : ClearSession(s)

SpecThreads == Init /\ [][NextThreads]_vars

\* A caller that holds a ChatAgent: it calls chat again and again, clears the
\* conversation, asks for its summary, may be interrupted in a call, and
\* clears sessions of the store.  Every call is answered directly, and
\* after an interrupted call the caller clears the conversation before it
\* calls chat again.
AgentReplyIds == { i \in ReplyIds : RouteDecision(Replies[i]) = "direct" }

NextAgent ==
    \/ \E r \in Requests, s \in SessionIds, q \in Range(QueryTexts) :
          AllIdle /\ StartChat(r, s, q)
    \/ \E r \in Requests, q \in Range(QueryTexts) : ChatAgain(r, q)
    \/ \E r \in Requests, info \in ThreadInfoOutcomes, llmOk \in BOOLEAN,
          reply \in AgentReplyIds :
          RouteQuery(r, info, llmOk, reply)
    \/ \E r \in Requests, llm \in ThreadLLMOutcomes("direct answer") : DirectNode(r, llm)
    \/ \E r \in Requests : AddUserMessage(r, TRUE)
    \/ \E r \in Requests : AddAiMessage(r, TRUE)
    \/ \E r \in Requests : ClearConversation(r)
    \/ \E r \in Requests : Interrupt(r)
    \/ \E s \in SessionIds : ClearSession(s)

SpecAgent == Init /\ [][NextAgent]_vars

\* ------------------------------------------------------- the store, used directly

\* turns a caller appends to one conversation of the store
MaxStoreTurns == 3

\* MemoryStore.get_session_memory: get or create.
get_session_memory(store, memories, session_id) ==
    IF session_id \in store
    THEN [sessions |-> store, mems |-> memories]
    ELSE [sessions |-> store \cup {session_id},
          mems |-> [memories EXCEPT ![session_id] = EmptyMemory]]

\* memory_store.get_session_memory(s)
GetSessionMemory(s) ==
    /\ sessions' = get_session_memory(sessions, mems, s).sessions
    /\ mems' = get_session_memory(sessions, mems, s).mems
    /\ UNCHANGED <<req, calls, completed, expected>>

\* add_user_message on the manager the store holds for s
StoreAddUserMessage(s, message, storeOk) ==
    /\ s \in sessions
    /\ Len(mems[s].message_history) < MaxStoreTurns
    /\ mems' = [mems EXCEPT ![s] = add_message(@, "human", message, storeOk)]
    /\ UNCHANGED <<sessions, req, calls, completed, expected>>

\* add_ai_message on the manager the store holds for s
StoreAddAiMessage(s, message, storeOk) ==
    /\ s \in sessions
    /\ Len(mems[s].message_history) < MaxStoreTurns
    /\ mems' = [mems EXCEPT ![s] = add_message(@, "ai", message, storeOk)]
    /\ UNCHANGED <<sessions, req, calls, completed, expected>>

\* clear_memory on the manager the store holds for s: the session stays.
StoreClearMemory(s) ==
    /\ s \in sessions
    /\ mems' = [mems EXCEPT ![s] = clear_memory(@)]
    /\ UNCHANGED <<sessions, req, calls, completed, expected>>

\* The texts a caller of the store appends.
StoreUserTexts == {"q1"}

StoreAiTexts == {"direct answer"}

\* A caller that uses memory_store and its managers directly, next to the
\* chat calls of the service, which are answered directly here.
NextStore ==
    \/ \E s \in SessionIds : GetSessionMemory(s)
    \/ \E s \in SessionIds, message \in StoreUserTexts, storeOk \in BOOLEAN :
          StoreAddUserMessage(s, message, storeOk)
    \/ \E s \in SessionIds, message \in StoreAiTexts, storeOk \in BOOLEAN :
          StoreAddAiMessage(s, message, storeOk)
    \/ \E s \in SessionIds : StoreClearMemory(s)
    \/ \E s \in SessionIds : ClearSession(s)
    \/ \E r \in Requests, s \in SessionIds, q \in Range(QueryTexts) :
          AllIdle /\ StartChat(r, s, q)
    \/ \E r \in Requests, info \in ThreadInfoOutcomes, reply \in AgentReplyIds :
          RouteQuery(r, info, TRUE, reply)
    \/ \E r \in Requests, llm \in ThreadLLMOutcomes("direct answer") : DirectNode(r, llm)
    \/ \E r \in Requests : AddUserMessage(r, TRUE)
    \/ \E r \in Requests : AddAiMessage(r, TRUE)
    \/ \E r \in Requests : Respond(r)

SpecStore == Init /\ [][NextStore]_vars

\* ------------------------------------------------------- the service, run to the end

\* A model call raises or answers.
LiveLLMOutcomes(kind) == { [ok |-> FALSE, content |-> ""], [ok |-> TRUE, content |-> kind] }

\* The steps of a chat call after it started: every one is the next
\* statement of chat_endpoint and ChatAgent.chat, which the handler runs
\* without awaiting anything.
ChatProgress ==
    \/ \E r \in Requests : GraphFails(r)
    \/ \E r \in Requests, info \in ThreadInfoOutcomes, llmOk \in BOOLEAN,
          reply \in ThreadReplyIds :
          RouteQuery(r, info, llmOk, reply)
    \/ \E r \in Requests, provider \in ThreadProviderOutcomes,
          llm \in LiveLLMOutcomes("search answer") :
          SearchNode(r, provider, llm)
    \/ \E r \in Requests, index \in ThreadIndexOutcomes,
          llm \in LiveLLMOutcomes("document answer") :
          DocumentNode(r, index, llm)
    \/ \E r \in Requests, provider \in ThreadProviderOutcomes,
          llmS \in LiveLLMOutcomes("search answer"),
          index \in ThreadIndexOutcomes, llmD \in LiveLLMOutcomes("document answer") :
          BothNode(r, provider, llmS, index, llmD)
    \/ \E r \in Requests, llm \in LiveLLMOutcomes("direct answer") : DirectNode(r, llm)
    \/ \E r \in Requests, llmFinal \in LiveLLMOutcomes("final answer"),
          llmDirect \in LiveLLMOutcomes("direct answer") :
          CombineNode(r, llmFinal, llmDirect)
    \/ \E r \in Requests : AddUserMessage(r, TRUE)
    \/ \E r \in Requests : AddAiMessage(r, TRUE)

NextLive ==
    \/ \E r \in Requests, s \in SessionIds, q \in Range(QueryTexts) :
          AllIdle /\ StartChat(r, s, q)
    \/ ChatProgress
    \/ \E r \in Requests : Respond(r)

\* The service when every call made to a model, the provider, the index and
\* the message store returns or raises: a handler that can go on does go on.
SpecLive == Init /\ [][NextLive]_vars /\ WF_vars(ChatProgress)

\* ------------------------------------------------------- what the claims read

\* GET /sessions: the summary of every session memory_store holds.
get_sessions == [s \in sessions |-> get_session_summary(mems[s])]

\* The turn count the service reports for session s; a session the listing
\* does not name has none, counted as 0.
SummaryTurnCount(s) ==
    IF s \in DOMAIN get_sessions THEN get_sessions[s].message_count ELSE 0

\* No chat call for session s is under way.
Quiet(s) ==
    \A r \in Requests : req[r].session_id = s => req[r].pc \in {"idle", "done"}

\* The decision the priority order SEARCH, DOCUMENTS, BOTH, else Direct gives
\* for each of Replies, worked out by hand.
ExpectedDecision ==
    << "search", "documents", "both", "direct", "search",
       "both", "direct", "documents", "search", "direct" >>

\* Case-insensitive containment of an upper-case word.
HasWord(reply, word) ==
    \E i \in 1 .. Len(reply), j \in 1 .. Len(reply) :
        /\ j - i + 1 = Len(word)
        /\ \A k \in 1 .. Len(word) :
              \/ reply[i + k - 1] = word[k]
              \/ /\ reply[i + k - 1] \in DOMAIN UpperOf
                 /\ UpperOf[reply[i + k - 1]] = word[k]

Alternates(turns) ==
    \A i \in 1 .. Len(turns) :
        turns[i].type = (IF i % 2 = 1 THEN "human" ELSE "ai")

ResultFields == {"success", "response", "sources", "session_id"}

Pcs == {"idle", "interrupted"} \cup RunningPcs \cup RestPcs

\* ------------------------------------------------------- claims

\* C1: for every session, once its chat calls have returned, the turn count
\* of the session summary is twice the number of chat calls completed since
\* the session was created or last cleared; stated for the sessions all of
\* whose calls since then returned an answer and recorded both of its turns.
C1_TurnCountTwiceCompleted ==
    \A s \in SessionIds :
        (Quiet(s) /\ Len(expected[s]) = 2 * completed[s])
        => SummaryTurnCount(s) = 2 * completed[s]

\* C2: the history a chat call for session s reads for its prompt is made of
\* the turns the earlier chat calls for s appended since the last clear of s.
C2_ReadsEarlierTurns ==
    \A r \in Requests :
        req[r].pc = "invoke" =>
            req[r].state.chat_history =
                get_formatted_history(
                    [chat_memory |-> expected[req[r].session_id],
                     message_history |-> <<>>])

\* C3: when the relevance filter of the document adapter removes every
\* match, Combine falls back to Direct, and no answer of a chat call is
\* synthesized from document text alone together with an empty source list.
C3_FilteredOutFallsBack ==
    \A r \in Requests :
        (/\ req[r].pc = "done"
         /\ req[r].result.success
         /\ ~req[r].state.search_results.success)
        => /\ req[r].state.document_results.response = NotRelevantText
                 => req[r].result.response # "final answer"
           /\ (/\ req[r].state.document_results.success
               /\ req[r].state.document_results.response # ""
               /\ req[r].result.response = "final answer")
                 => req[r].result.sources # <<>>

\* C4: in the Both branch, when the search adapter fails and the document
\* adapter succeeds, the sources of the answer are document entries only (the
\* document adapter's, or none), the result has success = true and its
\* response is not a search error text.
C4_BothSearchFailed ==
    \A r \in Requests :
        (/\ req[r].pc = "done"
         /\ req[r].decision = "both"
         /\ ~req[r].state.search_results.success
         /\ req[r].state.document_results.success)
        => /\ req[r].result.success
           /\ req[r].result.sources \in {req[r].state.document_results.sources, <<>>}
           /\ \A i \in 1 .. Len(req[r].result.sources) :
                 req[r].result.sources[i].origin = "doc"
           /\ req[r].result.response \notin {SearchErrorText, SearchNotFoundText}

C4_Witness ==
    \E r \in Requests :
        /\ req[r].pc = "done"
        /\ req[r].decision = "both"
        /\ req[r].state.search_results.present
        /\ ~req[r].state.search_results.success
        /\ req[r].state.document_results.success
        /\ Len(req[r].result.sources) = 2

\* C5: the decision of the router follows from the reply by case-insensitive
\* containment in the order SEARCH, DOCUMENTS, BOTH, else Direct; "I recommend
\* SEARCH" gives Search, "Use DOCUMENTS please" Documents, "BOTH sources
\* needed" Both and "just say hi" Direct.
C5_RouterPriority ==
    \A r \in Requests :
        (req[r].pc \in NodePcs /\ req[r].routing.llmOk) =>
            LET reply == Replies[req[r].routing.reply]
            IN /\ req[r].decision = ExpectedDecision[req[r].routing.reply]
               /\ req[r].decision =
                    IF HasWord(reply, SEARCH) THEN "search"
                    ELSE IF HasWord(reply, DOCUMENTS) THEN "documents"
                    ELSE IF HasWord(reply, BOTH) THEN "both"
                    ELSE "direct"

C5_Witness ==
    \E r \in Requests :
        /\ req[r].pc = "search"
        /\ req[r].routing.llmOk
        /\ HasWord(Replies[req[r].routing.reply], BOTH)
        /\ HasWord(Replies[req[r].routing.reply], SEARCH)

C7_ChatIsTotal ==
    \A r \in Requests :
        /\ req[r].pc \in Pcs
        /\ req[r].pc = "done" =>
              /\ DOMAIN req[r].result = ResultFields
              /\ req[r].result.success \in BOOLEAN
              /\ req[r].result.session_id = req[r].session_id

C7_Witness ==
    \E r \in Requests :
        /\ req[r].pc = "done"
        /\ req[r].decision = "both"
        /\ req[r].state.search_results.response = SearchNotFoundText
        /\ req[r].state.document_results.response = DocumentErrorText
        /\ req[r].result.response = ApologyText
        /\ req[r].result.sources = <<>>

\* C8: a chat call appends one user turn and then one assistant turn, after
\* the answer is computed; the history it read does not hold its query, and
\* the assistant turn carries the response the caller gets, apology and error
\* texts included.
C8_AppendsBothTurns ==
    \A r \in Requests :
        req[r].pc = "done" =>
            /\ req[r].added = << Turn("human", req[r].query),
                                 Turn("ai", req[r].result.response) >>
            /\ \A i \in 1 .. Len(req[r].state.chat_history) :
                  req[r].state.chat_history[i][2] # req[r].query

\* C9: in every conversation the turns alternate user, assistant, also after
\* a history append that failed.
C9_TurnsAlternate ==
    \A m \in MemIds :
        /\ Alternates(mems[m].chat_memory)
        /\ Alternates(mems[m].message_history)

C11_HistoryWindow ==
    \A r \in Requests :
        req[r].pc \in RunningPcs =>
            Len(req[r].state.chat_history) <= 2 * memory_window

\* The summary of a conversation without turns.
NoActivity == [message_count |-> 0, last_activity |-> <<>>]

RECURSIVE ExpectedDocSources(_)
ExpectedDocSources(matches) ==
    IF matches = <<>> THEN <<>>
    ELSE IF Head(matches).score >= RelevanceThreshold
    THEN ExpectedDocSources(Tail(matches))
    ELSE << [origin |-> "doc", ref |-> Head(matches).doc, score |-> Head(matches).score] >>
         \o ExpectedDocSources(Tail(matches))

C15_SearchSources ==
    /\ [](\A r \in Requests :
            (/\ req[r].pc = "done"
             /\ req[r].decision = "search"
             /\ req[r].result.response = "final answer")
            => /\ req[r].result.sources = req[r].state.search_results.sources
               /\ Len(req[r].result.sources) >= 1
               /\ \A i \in 1 .. Len(req[r].result.sources) :
                     req[r].result.sources[i].origin = "web")
    /\ [][\A r \in Requests :
            req[r].pc = "search" =>
              \A provider \in ProviderOutcomes, llm \in LLMOutcomes("search answer") :
                (/\ SearchNode(r, provider, llm)
                 /\ provider.ok
                 /\ Len(provider.results) >= 1
                 /\ llm.ok)
                => /\ Len(req'[r].state.search_results.sources) = Len(provider.results)
                   /\ \A i \in 1 .. Len(provider.results) :
                         /\ req'[r].state.search_results.sources[i].origin = "web"
                         /\ req'[r].state.search_results.sources[i].ref
                               = provider.results[i]]_vars

C15_Witness ==
    \E r \in Requests :
        /\ req[r].pc = "done"
        /\ req[r].decision = "search"
        /\ req[r].result.response = "final answer"
        /\ Len(req[r].result.sources) = 2
        /\ req[r].result.sources[1].ref = "w2"
        /\ req[r].result.sources[2].ref = "w1"

\* C16: success = false is reported only when no answer text was produced,
\* and it is reported when the model call of the Direct fallback fails too,
\* so that all the caller gets is the apology; an outage that still leaves an
\* answer text is reported with success = true.
C16_OutageSuccessFlag ==
    \A r \in Requests :
        req[r].pc = "done" =>
            /\ ~req[r].result.success =>
                  req[r].result.response \in {ApologyText, ChatErrorText}
            /\ req[r].result.response = ApologyText => ~req[r].result.success
            /\ req[r].result.response \notin {ApologyText, ChatErrorText} =>
                  req[r].result.success

\* C17: a chat request with an empty query is rejected before the workflow
\* runs: the router is not called for it, no node runs and no turn is
\* appended.
C17_EmptyQueryRejected ==
    \A r \in Requests :
        (req[r].pc # "idle" /\ req[r].query = "") =>
            /\ req[r].pc \notin NodePcs \cup {"combine", "add_user", "add_ai"}
            /\ req[r].routing = NoRouting
            /\ req[r].added = <<>>

\* C18: GET /sessions lists every session that exists.  A session whose chat
\* calls have returned and recorded their turns, and that was not cleared
\* since, is listed with the number of its turns and the stamp of the last
\* one; a session that is listed has turns.
C18_SessionsListed ==
    /\ \A s \in SessionIds :
          (Quiet(s) /\ completed[s] >= 1 /\ Len(expected[s]) = 2 * completed[s])
          => /\ s \in DOMAIN get_sessions
             /\ get_sessions[s].message_count = Len(expected[s])
             /\ get_sessions[s].last_activity # <<>>
    /\ \A s \in DOMAIN get_sessions : expected[s] # <<>>

\* C19: a chat call that is interrupted leaves in the history either both of
\* its turns or none, and never its user turn alone.
C19_NoPartialAppend ==
    \A r \in Requests :
        req[r].pc = "interrupted" =>
            /\ Len(req[r].added) \in {0, 2}
            /\ Len(mems[req[r].mem].chat_memory)
                  \in { Len(req[r].state.chat_history),
                        Len(req[r].state.chat_history) + 2 }

\* C20: an adapter turns every failure of what it depends on into a result
\* with success = false: the search adapter a failure of the provider or of
\* its model call, the document adapter a failure of the index or of its
\* model call (a model call counts when the adapter makes it).
C20_FailuresBecomeNotOk ==
    [][\A r \in Requests :
          /\ \A provider \in ProviderOutcomes, llm \in LLMOutcomes("search answer") :
                (/\ SearchNode(r, provider, llm)
                 /\ \/ ~provider.ok
                    \/ provider.results # <<>> /\ ~llm.ok)
                => /\ req'[r].state.search_results.present
                   /\ ~req'[r].state.search_results.success
          /\ \A index \in IndexOutcomes, llm \in LLMOutcomes("document answer") :
                (/\ DocumentNode(r, index, llm)
                 /\ \/ ~index.ok
                    \/ ExpectedDocSources(index.matches) # <<>> /\ ~llm.ok)
                => /\ req'[r].state.document_results.present
                   /\ ~req'[r].state.document_results.success]_vars

\* C21: for each adapter, a provider that answers with nothing gives a
\* successful result, and that result differs from the result the adapter
\* gives when the provider fails.
C21_EmptyDistinctFromFailure ==
    [][\A r \in Requests :
          /\ req[r].pc = "search" =>
               \A provider \in ProviderOutcomes, llm \in LLMOutcomes("search answer") :
                 (SearchNode(r, provider, llm) /\ provider.ok /\ provider.results = <<>>)
                 => /\ req'[r].state.search_results.success
                    /\ \A failed \in ProviderOutcomes :
                          ~failed.ok =>
                             req'[r].state.search_results
                                # search_and_respond(failed, llm)
          /\ req[r].pc = "documents" =>
               \A index \in IndexOutcomes, llm \in LLMOutcomes("document answer") :
                 (DocumentNode(r, index, llm) /\ index.ok /\ index.matches = <<>>)
                 => /\ req'[r].state.document_results.success
                    /\ \A failed \in IndexOutcomes :
                          ~failed.ok =>
                             req'[r].state.document_results
                                # query_documents(failed, llm)]_vars

\* A text Combine can synthesize from, as the claims see it: the result is
\* successful, its text is not empty and is not the text the document
\* adapter gives when its filter left nothing.
UsableText(result) ==
    /\ result.success
    /\ result.response # ""
    /\ result.response # NotRelevantText

\* The graph has run to its END for request r.
GraphDone(r) == req[r].pc \in {"add_user", "add_ai", "done"} /\ req[r].log # <<>>

\* C22: Combine synthesizes only from usable texts; when no adapter that was
\* invoked gave one (all failed, or all were filtered to empty), the answer
\* is the one of the Direct fallback, with an empty source list, and no
\* synthesis call is made.
C22_CombineUsableText ==
    \A r \in Requests :
        (GraphDone(r) /\ req[r].decision \in {"search", "documents", "both"})
        => /\ (/\ ~UsableText(req[r].state.search_results)
               /\ ~UsableText(req[r].state.document_results))
              => /\ \A i \in 1 .. Len(req[r].log) : req[r].log[i] # "llm:final"
                 /\ \E i \in 1 .. Len(req[r].log) : req[r].log[i] = "llm:direct"
                 /\ req[r].state.sources = <<>>
           /\ (\E i \in 1 .. Len(req[r].log) : req[r].log[i] = "llm:final")
              => \/ UsableText(req[r].state.search_results)
                 \/ UsableText(req[r].state.document_results)

\* The answer of request r is the one the synthesis call of Combine gave.
Synthesized(r) ==
    /\ GraphDone(r)
    /\ req[r].log[Len(req[r].log)] = "llm:final"

\* C23: when Combine synthesizes the answer, its source list is the sources
\* of the search adapter, if that one succeeded, followed by the sources of
\* the document adapter, if that one succeeded, each in its own order and
\* with nothing added, dropped or moved; the caller gets that list.
C23_SourcesConcatenated ==
    \A r \in Requests :
        Synthesized(r) =>
            LET S == req[r].state.search_results
                D == req[r].state.document_results
                out == req[r].state.sources
                ns == IF S.success THEN Len(S.sources) ELSE 0
                nd == IF D.success THEN Len(D.sources) ELSE 0
            IN /\ Len(out) = ns + nd
               /\ \A i \in 1 .. ns : out[i] = S.sources[i] /\ out[i].origin = "web"
               /\ \A j \in 1 .. nd : out[ns + j] = D.sources[j] /\ out[ns + j].origin = "doc"
               /\ req[r].pc = "done" => req[r].result.sources = out

C23_Witness ==
    \E r \in Requests :
        /\ req[r].pc = "done"
        /\ Synthesized(r)
        /\ Len(req[r].result.sources) = 4
        /\ req[r].result.sources[1].ref = "w2"
        /\ req[r].result.sources[2].ref = "w1"
        /\ req[r].result.sources[3].ref = "d2"
        /\ req[r].result.sources[4].ref = "d1"

\* How often call occurs in a log.
Count(log, call) == Cardinality({ i \in 1 .. Len(log) : log[i] = call })

\* C24: the Direct branch makes one model call and invokes no adapter, and
\* when that model call fails the answer is the fixed apology with an empty
\* source list, returned as a result and not raised; so it is when Direct is
\* the decision of the router and when Combine falls back to it.
C24_DirectBranch ==
    /\ [](\A r \in Requests :
            GraphDone(r) =>
                /\ Count(req[r].log, "llm:direct") <= 1
                /\ req[r].decision = "direct" =>
                      req[r].log = << "llm:route", "direct", "llm:direct" >>
                /\ (req[r].pc = "done" /\ req[r].state.final_response = ApologyText)
                   => req[r].result =
                         [success |-> TRUE, response |-> ApologyText,
                          sources |-> <<>>, session_id |-> req[r].session_id])
    /\ [][\A r \in Requests :
            /\ req[r].pc = "direct" =>
                 \A llm \in LLMOutcomes("direct answer") :
                   (DirectNode(r, llm) /\ ~llm.ok)
                   => /\ req'[r].state.final_response = ApologyText
                      /\ req'[r].state.sources = <<>>
            /\ req[r].pc = "combine" =>
                 \A llmFinal \in LLMOutcomes("final answer"),
                    llmDirect \in LLMOutcomes("direct answer") :
                   (/\ CombineNode(r, llmFinal, llmDirect)
                    /\ Count(req'[r].log, "llm:direct") = 1
                    /\ ~llmDirect.ok)
                   => /\ req'[r].state.final_response = ApologyText
                      /\ req'[r].state.sources = <<>>]_vars

C24_Witness ==
    \E r \in Requests :
        /\ req[r].pc = "done"
        /\ req[r].decision = "both"
        /\ Len(req[r].state.search_results.sources) = 2
        /\ req[r].log[Len(req[r].log) - 1] = "llm:final"
        /\ req[r].log[Len(req[r].log)] = "llm:direct"
        /\ req[r].result.response = ApologyText
        /\ req[r].result.sources = <<>>

\* C25: in the Both branch each adapter is invoked once, whatever the other
\* one gives: the document adapter is invoked, and its result kept, also when
\* the search adapter fails.
C25_BothUnconditional ==
    \A r \in Requests :
        /\ req[r].pc = "both" =>
              \A provider \in ProviderOutcomes, llmS \in LLMOutcomes("search answer"),
                 index \in IndexOutcomes, llmD \in LLMOutcomes("document answer") :
                /\ both_node(req[r].state, provider, llmS, index, llmD).search_results
                      = search_and_respond(provider, llmS)
                /\ both_node(req[r].state, provider, llmS, index, llmD).document_results
                      = query_documents(index, llmD)
        /\ (req[r].decision = "both" /\ req[r].pc # "both") =>
              /\ Count(req[r].log, "search_and_respond") = 1
              /\ Count(req[r].log, "query_documents") = 1
              /\ req[r].state.search_results.present
              /\ req[r].state.document_results.present

C25_Witness ==
    \E r \in Requests :
        /\ req[r].pc = "combine"
        /\ req[r].decision = "both"
        /\ req[r].state.search_results.response = SearchErrorText
        /\ req[r].state.document_results.success
        /\ Len(req[r].state.document_results.sources) = 2
        /\ Count(req[r].log, "query_documents") = 1

\* The adapters a chat call invoked, by its log.
AdaptersInvoked(log) ==
    Count(log, "search_and_respond") + Count(log, "query_documents")

\* C26: the graph follows its state machine: a direct decision ends without
\* an adapter and without Combine; a search decision invokes the search
\* adapter only, a documents decision the document adapter only, a both
\* decision both; these three pass through Combine once before the end; the
\* adapters invoked are 0, 1 or 2 accordingly.
C26_StateMachine ==
    \A r \in Requests :
        /\ req[r].pc = "combine" => req[r].decision \in {"search", "documents", "both"}
        /\ req[r].pc \in {"search", "documents", "both", "direct"} =>
              /\ req[r].decision = req[r].pc
              /\ req[r].log = route_calls
        /\ GraphDone(r) =>
              /\ req[r].decision = "direct" =>
                    /\ AdaptersInvoked(req[r].log) = 0
                    /\ Count(req[r].log, "combine") = 0
                    /\ Count(req[r].log, "direct") = 1
              /\ req[r].decision = "search" =>
                    /\ Count(req[r].log, "search_and_respond") = 1
                    /\ AdaptersInvoked(req[r].log) = 1
                    /\ req[r].log[2] = "search"
              /\ req[r].decision = "documents" =>
                    /\ Count(req[r].log, "query_documents") = 1
                    /\ AdaptersInvoked(req[r].log) = 1
                    /\ req[r].log[2] = "documents"
              /\ req[r].decision = "both" =>
                    /\ Count(req[r].log, "search_and_respond") = 1
                    /\ Count(req[r].log, "query_documents") = 1
                    /\ AdaptersInvoked(req[r].log) = 2
                    /\ req[r].log[2] = "both"
              /\ req[r].decision \in {"search", "documents", "both"} =>
                    /\ Count(req[r].log, "combine") = 1
                    /\ Count(req[r].log, "direct") = 0
                    /\ \E i \in 3 .. Len(req[r].log) :
                          /\ req[r].log[i] = "combine"
                          /\ \A j \in i + 1 .. Len(req[r].log) :
                                req[r].log[j] \in {"llm:final", "llm:direct"}

C26_Witness ==
    \E r \in Requests :
        /\ req[r].pc = "done"
        /\ req[r].decision = "documents"
        /\ AdaptersInvoked(req[r].log) = 1
        /\ Count(req[r].log, "query_documents") = 1
        /\ Count(req[r].log, "combine") = 1
        /\ req[r].log[Len(req[r].log)] = "llm:final"

\* C27: when the index gives no match, or the filter leaves none of its
\* matches, the document adapter answers with success, one of its two
\* "nothing relevant" texts and no source, and makes no model call: the
\* outcome of the model plays no part.
C27_EmptyDocumentsSucceed ==
    [][\A r \in Requests :
         req[r].pc = "documents" =>
           \A index \in IndexOutcomes, llm \in LLMOutcomes("document answer") :
             (DocumentNode(r, index, llm) /\ ExpectedDocSources(index.matches) = <<>>)
             => /\ req'[r].state.document_results.success
                /\ req'[r].state.document_results.response =
                      (IF index.matches = <<>> THEN NoDocumentsText ELSE NotRelevantText)
                /\ req'[r].state.document_results.sources = <<>>
                /\ Count(req'[r].log, "query_documents") = 1
                /\ Count(req'[r].log, "llm:document") = 0]_vars

C27_Witness ==
    \E r \in Requests :
        /\ req[r].pc = "combine"
        /\ req[r].decision = "documents"
        /\ req[r].state.document_results =
              AdapterResult(TRUE, NotRelevantText, <<>>)
        /\ req[r].log = << "llm:route", "documents", "query_documents" >>

\* C28: the two adapter calls of the Both branch do not depend on one
\* another: running document_node before search_node gives the state that
\* both_node gives, the search result is the one the Search branch would
\* get and the document result the one the Documents branch would get, so
\* Combine is given the same texts and sources in either order.
C28_BothIndependent ==
    \A r \in Requests :
        /\ req[r].pc = "both" =>
              \A provider \in ProviderOutcomes, llmS \in LLMOutcomes("search answer"),
                 index \in IndexOutcomes, llmD \in LLMOutcomes("document answer") :
                /\ both_node(req[r].state, provider, llmS, index, llmD) =
                      search_node(document_node(req[r].state, index, llmD),
                                  provider, llmS)
                /\ both_node(req[r].state, provider, llmS, index, llmD).search_results =
                      search_node(req[r].state, provider, llmS).search_results
                /\ both_node(req[r].state, provider, llmS, index, llmD).document_results =
                      document_node(req[r].state, index, llmD).document_results
        /\ (req[r].pc = "combine" /\ req[r].decision = "both") =>
              \E provider \in ProviderOutcomes, llmS \in LLMOutcomes("search answer"),
                 index \in IndexOutcomes, llmD \in LLMOutcomes("document answer") :
                req[r].state =
                   search_node(
                      document_node(
                         InitialState(req[r].state.query, req[r].state.chat_history),
                         index, llmD),
                      provider, llmS)

C28_Witness ==
    \E r \in Requests :
        /\ req[r].pc = "combine"
        /\ req[r].decision = "both"
        /\ req[r].state.search_results.success
        /\ Len(req[r].state.search_results.sources) = 2
        /\ req[r].state.document_results.success
        /\ Len(req[r].state.document_results.sources) = 1

\* The texts an adapter gives as the reason of a failure.
FailureTexts == {SearchNotFoundText, SearchErrorText, DocumentErrorText}

\* The adapter results a request holds.
AdapterResults(r) ==
    { res \in {req[r].state.search_results, req[r].state.document_results} :
        res.present }

\* C29 as stated: a result that is not ok has an empty text and an empty
\* source list.
C29_FailureTextEmpty ==
    \A r \in Requests : \A res \in AdapterResults(r) :
        ~res.success => (res.response = "" /\ res.sources = <<>>)

\* C29: every adapter result that is not ok has an empty source list and
\* carries the reason of the failure as its text, and a result that is ok
\* never carries such a reason.
C29_ResultContract ==
    \A r \in Requests : \A res \in AdapterResults(r) :
        /\ ~res.success => (res.sources = <<>> /\ res.response \in FailureTexts)
        /\ res.success => res.response \notin FailureTexts

C29_Witness ==
    \E r \in Requests :
        /\ req[r].state.search_results =
              AdapterResult(FALSE, SearchErrorText, <<>>)
        /\ req[r].state.document_results =
              AdapterResult(FALSE, DocumentErrorText, <<>>)

\* The sources Combine gathers from the adapter results that succeeded.
GatheredSources(state) ==
    (IF state.search_results.success THEN state.search_results.sources ELSE <<>>)
    \o (IF state.document_results.success THEN state.document_results.sources ELSE <<>>)

\* C30: a chat call gives a non-empty source list only if the synthesis call
\* of Combine succeeded; when that call fails after sources were gathered the
\* Direct fallback answers and the gathered sources are dropped; every answer
\* of the Direct path, by routing or by fallback, an answer of the model or
\* the apology, has an empty source list.
C30_SourcesOnlyIfSynthesized ==
    /\ [](\A r \in Requests :
            /\ GraphDone(r) =>
                 /\ req[r].state.sources # <<>> => Synthesized(r)
                 /\ Count(req[r].log, "llm:direct") > 0 => req[r].state.sources = <<>>
            /\ req[r].pc = "done" =>
                 /\ req[r].result.sources # <<>> =>
                       /\ req[r].log # <<>>
                       /\ req[r].log[Len(req[r].log)] = "llm:final"
                 /\ Count(req[r].log, "llm:direct") > 0 => req[r].result.sources = <<>>)
    /\ [][\A r \in Requests :
            req[r].pc = "combine" =>
              \A llmFinal \in LLMOutcomes("final answer"),
                 llmDirect \in LLMOutcomes("direct answer") :
                (CombineNode(r, llmFinal, llmDirect) /\ ~llmFinal.ok)
                => /\ req'[r].state.sources = <<>>
                   /\ req'[r].state.final_response =
                         (IF llmDirect.ok THEN llmDirect.content ELSE ApologyText)]_vars

C30_Witness ==
    \E r \in Requests :
        /\ req[r].pc = "done"
        /\ req[r].decision = "documents"
        /\ Len(GatheredSources(req[r].state)) = 2
        /\ req[r].log[Len(req[r].log) - 1] = "llm:final"
        /\ req[r].log[Len(req[r].log)] = "llm:direct"
        /\ req[r].result.success
        /\ req[r].result.sources = <<>>

\* The conversations of the sessions other than s: the managers the store
\* holds for them and the managers of the chat calls on them.
OtherMemIds(s) ==
    (SessionIds \ {s})
    \cup { r \in Requests : req[r].pc # "idle" /\ req[r].session_id # s }

\* Nothing of the sessions other than s changes in the step: not their
\* history, turn count or last activity, nor whether the store holds them.
OthersUnchanged(s) ==
    /\ \A m \in OtherMemIds(s) :
          /\ mems'[m] = mems[m]
          /\ get_session_summary(mems'[m]) = get_session_summary(mems[m])
    /\ \A t \in SessionIds \ {s} : (t \in sessions') = (t \in sessions)

\* The steps of the chat call of request r on session s.
ChatStep(r, s) ==
    /\ req'[r] # req[r]
    /\ \/ req[r].pc # "idle" /\ req[r].session_id = s
       \/ req[r].pc = "idle" /\ req'[r].session_id = s

\* C31: sessions are isolated: a step of a chat call on session s, and a
\* clear of s, leave history, turn count and last activity of every other
\* session as they are, and the clear removes s and nothing else from the
\* sessions of the store.
C31_SessionsIsolated ==
    [][\A s \in SessionIds :
         /\ ClearSession(s) =>
               /\ sessions' = sessions \ {s}
               /\ OthersUnchanged(s)
         /\ \A r \in Requests :
               ChatStep(r, s) => (OthersUnchanged(s) /\ sessions' = sessions)]_vars

C31_Witness ==
    \E r \in Requests :
        /\ req[r].pc = "done"
        /\ req[r].session_id = "s1"
        /\ Len(mems[r].message_history) = 2
        /\ sessions = {"s2"}
        /\ Len(mems["s2"].message_history) = MaxStoreTurns
        /\ last_activity(mems["s2"]) = << MaxStoreTurns >>

\* The display archive and the prompt memory of one manager hold the same
\* messages: as many, with the same roles and texts, in the same order.
SameMessages(memory) ==
    /\ Len(memory.message_history) = Len(memory.chat_memory)
    /\ \A i \in 1 .. Len(memory.chat_memory) :
          /\ memory.message_history[i].type = memory.chat_memory[i].type
          /\ memory.message_history[i].content = memory.chat_memory[i].content

ModelCallNames == {"llm:route", "llm:search", "llm:document", "llm:final", "llm:direct"}

\* The model calls in a log.
ModelCalls(log) == Cardinality({ i \in 1 .. Len(log) : log[i] \in ModelCallNames })

\* How far a chat call has come: every step of the workflow takes it further.
PcRank(pc) ==
    IF pc = "invoke" THEN 1
    ELSE IF pc \in NodePcs THEN 2
    ELSE IF pc = "combine" THEN 3
    ELSE IF pc = "add_user" THEN 4
    ELSE IF pc = "add_ai" THEN 5
    ELSE IF pc = "done" THEN 6
    ELSE 0

\* C32: every chat call terminates: a call that started returns, every step
\* takes it further towards the return, so that no node runs twice, and it
\* makes at most five model calls: one for routing, at most one in each
\* adapter, at most one for the synthesis and at most one in Direct.
C32_ChatTerminates ==
    /\ \A r \in Requests : (req[r].pc = "invoke") ~> (req[r].pc = "done")
    /\ [](\A r \in Requests :
            /\ ModelCalls(req[r].log) <= 5
            /\ \A call \in ModelCallNames : Count(req[r].log, call) <= 1
            /\ \A node \in NodePcs \cup {"combine"} : Count(req[r].log, node) <= 1
            /\ req[r].pc \in NodePcs \cup {"combine", "add_user", "add_ai"} =>
                  Count(req[r].log, "llm:route") = 1)
    /\ [][\A r \in Requests :
            (req[r].pc \in RunningPcs /\ req'[r].pc # req[r].pc)
            => PcRank(req'[r].pc) > PcRank(req[r].pc)]_vars

C32_Witness ==
    \E r \in Requests :
        /\ req[r].pc = "done"
        /\ req[r].decision = "both"
        /\ ModelCalls(req[r].log) = 5
        /\ req[r].log = << "llm:route", "both", "search_and_respond", "llm:search",
                           "query_documents", "llm:document", "combine",
                           "llm:final", "llm:direct" >>

====
